---- MODULE Spec2Model ----
(***************************************************************************)
(* A model of the OAuth2 gateway of ysm_upload: the provider registry, the *)
(* signed-token codec, the login / callback / logout handlers and the      *)
(* authentication middleware (src/src/oauth/mod.rs, src/src/main.rs,       *)
(* src/src/oauth/blessingskin.rs, src/src/config.rs).                      *)
(*                                                                         *)
(* Strings the code builds are sequences of atoms (one atom per character  *)
(* class that matters); time is counted in clock ticks, TicksPerSec ticks  *)
(* to the second.                                                          *)
(***************************************************************************)
EXTENDS Integers, Sequences, FiniteSets, TLC

VARIABLES
    clock,        \* the system clock, in ticks (SystemTime::now / now_utc)
    providers,    \* AppState.config.oauth.providers
    prefix_url,   \* AppState.config.oauth.prefix_url
    secret_key,   \* AppState.secret_key
    req           \* the requests being served, one per slot

vars == <<clock, providers, prefix_url, secret_key, req>>

---------------------------------------------------------------------------
(* Bounds of the model.                                                    *)

MaxClock == 3
MaxTtl == 1
MaxNonce == 2
TicksPerSec == 2

Slots == {1, 2}
SeqSlots == {1}

Nonces == 1..MaxNonce
Codes == {"code1"}
Keys == {"k1", "k2"}

---------------------------------------------------------------------------
(* HTTP status codes used by the handlers.                                 *)

OK == 200
SEE_OTHER == 303
UNAUTHORIZED == 401
FORBIDDEN == 403
NOT_FOUND == 404
INTERNAL_SERVER_ERROR == 500

---------------------------------------------------------------------------
(* Provider kinds and the registry.                                        *)

\* A base URL: a host and the number of trailing slashes it was written with.
BaseUrl(host, slashes) == [host |-> host, slashes |-> slashes]

BlessingSkin(url) == [kind |-> "BlessingSkin", url |-> url]
Microsoft == [kind |-> "Microsoft", url |-> BaseUrl("", 0)]

\* OAuthProviderType::base_url
base_url(ptype) ==
    IF ptype.kind = "BlessingSkin" THEN ptype.url
    ELSE BaseUrl("login.microsoftonline.com", 0)

\* str::trim_end_matches('/')
trim_end_matches(url) == [url EXCEPT !.slashes = 0]

\* impl Display for OAuthProviderType: the text before and after the '='.
TypeToString(ptype) ==
    IF ptype.kind = "BlessingSkin"
    THEN [head |-> "blessingskin=", rest |-> ptype.url]
    ELSE [head |-> "microsoft", rest |-> BaseUrl("", 0)]

\* str::to_lowercase on the heads the model uses.
to_lowercase(s) ==
    CASE s = "Microsoft" -> "microsoft"
      [] s = "MS" -> "ms"
      [] OTHER -> s

\* impl FromStr for OAuthProviderType.
TypeFromStr(s) ==
    IF s.head \in {"bs=", "blessingskin=", "blessing-skin="}
    THEN [ok |-> TRUE, val |-> BlessingSkin(s.rest)]
    ELSE IF to_lowercase(s.head) \in {"microsoft", "ms"}
    THEN [ok |-> TRUE, val |-> Microsoft]
    ELSE [ok |-> FALSE, val |-> Microsoft]

OAuthProviderConfig(ptype, id, secret, enabled, scopes) ==
    [provider_type |-> ptype, client_id |-> id, client_secret |-> secret,
     enabled |-> enabled, scopes |-> scopes]

\* The registry the process was started with: an enabled and a disabled
\* Blessing Skin site, an enabled and a disabled Microsoft entry.
Registry ==
    [n \in {"p1", "p2", "ms", "msoff"} |->
        CASE n = "p1" -> OAuthProviderConfig(BlessingSkin(BaseUrl("skin1", 1)),
                            <<"X">>, <<"s1">>, TRUE, <<"User.Read">>)
          [] n = "p2" -> OAuthProviderConfig(BlessingSkin(BaseUrl("skin2", 0)),
                            <<"a", "&", "b">>, <<"s2">>, FALSE,
                            <<"User.Read", "Player.Read">>)
          [] n = "ms" -> OAuthProviderConfig(Microsoft,
                            <<"azure">>, <<"s3">>, TRUE, <<>>)
          [] OTHER -> OAuthProviderConfig(Microsoft,
                            <<"azure">>, <<"s4">>, FALSE, <<>>)]

\* The names a request path can carry: the registry's and one that is not.
Names == {"p1", "p2", "ms", "msoff", "ghost"}

PrefixUrl == <<"http", ":", "/", "/", "gw">>

\* AppState::get_provider: Option<&OAuthProviderConfig> as a sequence.
get_provider_any(name) ==
    IF name \in DOMAIN providers THEN <<providers[name]>>
    ELSE <<providers[CHOOSE n \in DOMAIN providers : providers[n].enabled]>>

get_provider(name) ==
    IF name \in DOMAIN providers THEN <<providers[name]>> ELSE <<>>

\* A listing that forgets the enabled flag.
get_all_providers == {<<n, providers[n]>> : n \in DOMAIN providers}

\* AppState::get_enabled_providers
get_enabled_providers ==
    {<<n, providers[n]>> : n \in {m \in DOMAIN providers : providers[m].enabled}}

\* A callback URL that is the same for every provider.
get_redirect_uri_shared(provider) ==
    prefix_url \o <<"/", "api", "/", "oauth", "/", "callback">>

\* AppState::get_redirect_uri
get_redirect_uri(provider) ==
    prefix_url \o <<"/", "api", "/", "oauth", "/", provider, "/", "callback">>

\* AppState::secret
secret == secret_key

---------------------------------------------------------------------------
(* Payloads and their JSON form (serde).                                   *)

\* uuid::Uuid
Uuid(n) == [ty |-> "Uuid", nonce |-> n]

\* struct YggdrasilProfile
YggdrasilProfile(id, name) == [id |-> id, name |-> name, properties |-> <<>>]

\* struct UnifiedUserInfo
UnifiedUserInfo(uid, nickname, email, provider, ptype, profiles) ==
    [uid |-> uid, nickname |-> nickname, email |-> email, provider |-> provider,
     provider_type |-> ptype, profiles |-> profiles]

\* struct TokenInformation
TokenInformation(access_token, provider_name, expire_date, user_info) ==
    [ty |-> "TokenInformation", access_token |-> access_token,
     provider_name |-> provider_name, expire_date |-> expire_date,
     user_info |-> user_info]

\* Duration::from_secs
from_secs(n) == n * TicksPerSec

\* serde's form of a SystemTime: whole seconds and the rest.
TimeToJson(t) ==
    [secs_since_epoch |-> t \div TicksPerSec, nanos_since_epoch |-> t % TicksPerSec]

\* A reading that keeps the whole seconds only.
TimeFromJson_secs(j) == j.secs_since_epoch * TicksPerSec

TimeFromJson(j) == j.secs_since_epoch * TicksPerSec + j.nanos_since_epoch

\* Serialize for UnifiedUserInfo (provider_type goes through Display).
UserToJson(u) == [u EXCEPT !.provider_type = TypeToString(u.provider_type)]

\* Serialize, for the two payload shapes the handlers sign.
ToJson(p) ==
    IF p.ty = "Uuid"
    THEN [j |-> "string", uuid |-> p.nonce]
    ELSE [j |-> "object", access_token |-> p.access_token,
          provider_name |-> p.provider_name,
          expire_date |-> TimeToJson(p.expire_date),
          user_info |-> UserToJson(p.user_info)]

Ok(v) == [ok |-> TRUE, err |-> "", val |-> <<v>>]
Err(e) == [ok |-> FALSE, err |-> e, val |-> <<>>]

TokenInformationFields ==
    {"j", "access_token", "provider_name", "expire_date", "user_info"}

\* A reading whose "Uuid" target takes any JSON value, as an untyped target
\* would.
FromJson_untyped(target, j) ==
    IF target = "Uuid"
    THEN Ok(Uuid(IF j.j = "string" /\ j.uuid > 0 THEN j.uuid ELSE 1))
    ELSE IF j.j = "object" /\ TokenInformationFields \subseteq DOMAIN j
              /\ TypeFromStr(j.user_info.provider_type).ok
         THEN Ok(TokenInformation(j.access_token, j.provider_name,
                    TimeFromJson(j.expire_date),
                    [j.user_info EXCEPT !.provider_type =
                        TypeFromStr(j.user_info.provider_type).val]))
         ELSE Err("parse")

\* Deserialize into the type the caller asks for: "Uuid" takes a JSON string
\* that is a UUID, "TokenInformation" a JSON object with its four fields
\* whose provider_type parses (FromStr).
FromJson(target, j) ==
    IF target = "Uuid"
    THEN IF j.j = "string" /\ j.uuid > 0 THEN Ok(Uuid(j.uuid)) ELSE Err("parse")
    ELSE IF j.j = "object" /\ TokenInformationFields \subseteq DOMAIN j
              /\ TypeFromStr(j.user_info.provider_type).ok
         THEN Ok(TokenInformation(j.access_token, j.provider_name,
                    TimeFromJson(j.expire_date),
                    [j.user_info EXCEPT !.provider_type =
                        TypeFromStr(j.user_info.provider_type).val]))
         ELSE Err("parse")

---------------------------------------------------------------------------
(* The token codec (jwt: SignWithKey / VerifyWithKey over Hmac<Sha256>).   *)

\* The MAC of header and claims under a key: equal only for equal inputs.
Hmac(key, header, claims) == [key |-> key, header |-> header, claims |-> claims]

\* sign_with_key: the default header, the claims' JSON and their MAC.
sign_with_key(payload, key) ==
    LET header == [alg |-> "HS256"]
        claims == ToJson(payload)
    IN [wf |-> TRUE, header |-> header, claims |-> claims,
        sig |-> Hmac(key, header, claims)]

\* A verification that trusts the claims without recomputing the MAC.
verify_unchecked(token, key, target) ==
    IF ~token.wf THEN Err("parse") ELSE FromJson(target, token.claims)

\* verify_with_key: split and parse the three parts, compare the header's
\* algorithm with the key's, recompute the MAC.
verify_with_key(token, key, target) ==
    IF ~token.wf THEN Err("parse")
    ELSE LET c == FromJson(target, token.claims)
         IN IF ~c.ok THEN Err("parse")
            ELSE IF token.header.alg # "HS256" THEN Err("algorithm")
            ELSE IF token.sig # Hmac(key, token.header, token.claims)
                 THEN Err("signature")
            ELSE c

---------------------------------------------------------------------------
(* The Blessing Skin provider client.                                      *)

\* urlencoding::encode, atom by atom.
EncodeAtom(a) ==
    CASE a = ":" -> "%3A"
      [] a = "/" -> "%2F"
      [] a = "&" -> "%26"
      [] a = " " -> "%20"
      [] OTHER -> a

urlencoding_encode(str) == [i \in DOMAIN str |-> EncodeAtom(str[i])]

\* slice::join
RECURSIVE join(_, _)
join(strs, sep) ==
    IF Len(strs) = 0 THEN <<>>
    ELSE IF Len(strs) = 1 THEN <<strs[1]>>
    ELSE <<strs[1], sep>> \o join(Tail(strs), sep)

\* BlessingSkinProvider::new
BlessingSkinProvider(config, name) == [config |-> config, name |-> name]

\* create_oauth_provider: a provider client, or the panic of todo!().
create_oauth_provider(provider_config, provider_name) ==
    IF provider_config.provider_type.kind = "BlessingSkin"
    THEN [panic |-> FALSE, val |-> <<BlessingSkinProvider(provider_config, provider_name)>>]
    ELSE [panic |-> TRUE, val |-> <<>>]

\* An authorize URL that sends the client secret where the id belongs.
get_authorize_url_secret(self, redirect_uri, state) ==
    [base |-> trim_end_matches(base_url(self.config.provider_type)),
     path |-> <<"/", "oauth", "/", "authorize">>,
     client_id |-> urlencoding_encode(self.config.client_secret),
     redirect_uri |-> urlencoding_encode(redirect_uri),
     response_type |-> "code",
     state |-> state,
     scope |-> join(self.config.scopes, " ")]

\* BlessingSkinProvider::get_authorize_url
get_authorize_url(self, redirect_uri, state) ==
    [base |-> trim_end_matches(base_url(self.config.provider_type)),
     path |-> <<"/", "oauth", "/", "authorize">>,
     client_id |-> urlencoding_encode(self.config.client_id),
     redirect_uri |-> urlencoding_encode(redirect_uri),
     response_type |-> "code",
     state |-> state,
     scope |-> join(self.config.scopes, " ")]

\* What the provider's token endpoint can answer: a token response (with
\* expires_in defaulting to 0), or a failure of the call.
AccessTokens == {"at1", "at2"}
TokenReplies ==
    [ok : {TRUE}, access_token : AccessTokens, expires_in : 0..MaxTtl,
     msg : {""}]
    \cup [ok : {FALSE}, access_token : {""}, expires_in : {0},
          msg : {"token endpoint: status 400"}]

\* The request exchange_token sends.
TokenCall(self, code, redirect_uri) ==
    [endpoint |-> "/oauth/token",
     base |-> trim_end_matches(base_url(self.config.provider_type)),
     client_id |-> self.config.client_id,
     client_secret |-> self.config.client_secret,
     redirect_uri |-> redirect_uri, code |-> code, bearer |-> ""]

\* An exchange that sends its request a second time when the first fails.
exchange_token_retrying(self, code, redirect_uri, reply) ==
    [calls |-> IF reply.ok
               THEN <<TokenCall(self, code, redirect_uri)>>
               ELSE <<TokenCall(self, code, redirect_uri),
                      TokenCall(self, code, redirect_uri)>>,
     result |-> IF reply.ok
                THEN Ok([access_token |-> reply.access_token,
                         expire_duration |-> from_secs(reply.expires_in)])
                ELSE Err(reply.msg)]

\* BlessingSkinProvider::exchange_token, given the endpoint's answer.
exchange_token(self, code, redirect_uri, reply) ==
    [calls |-> <<TokenCall(self, code, redirect_uri)>>,
     result |-> IF reply.ok
                THEN Ok([access_token |-> reply.access_token,
                         expire_duration |-> from_secs(reply.expires_in)])
                ELSE Err(reply.msg)]

\* What the provider's user endpoints can answer: the account, its player
\* names' profiles, and which of the three calls fails (0: none).
Accounts ==
    {[uid |-> 7, nickname |-> "alice", email |-> "a@x", profiles |-> <<>>],
     [uid |-> 8, nickname |-> "bob", email |-> "b@x",
      profiles |-> <<YggdrasilProfile("id8", "Steve")>>]}
UserReplies == [fail_at : 0..3, account : Accounts]

UserCall(self, endpoint, access_token) ==
    [endpoint |-> endpoint, base |-> self.config.provider_type.url,
     client_id |-> <<>>, client_secret |-> <<>>, redirect_uri |-> <<>>,
     code |-> "", bearer |-> access_token]

\* BlessingSkinProvider::provider_type
provider_type(self) == self.config.provider_type

\* BlessingSkinProvider::get_user_info, given the endpoints' answers: the
\* three calls in order, stopping at the first that fails.
get_user_info(self, access_token, reply) ==
    LET all == <<UserCall(self, "/api/user", access_token),
                 UserCall(self, "/api/players", access_token),
                 UserCall(self, "/api/yggdrasil/api/profiles/minecraft", "")>>
    IN IF reply.fail_at > 0
       THEN [calls |-> SubSeq(all, 1, reply.fail_at),
             result |-> Err("user endpoint: request failed")]
       ELSE [calls |-> all,
             result |-> Ok(UnifiedUserInfo(ToString(reply.account.uid),
                              reply.account.nickname, reply.account.email,
                              self.name, provider_type(self),
                              reply.account.profiles))]

---------------------------------------------------------------------------
(* Cookies and the cookie jar (axum_extra CookieJar over cookie::CookieJar).*)

\* Cookie::new / Cookie::from: a cookie with a name, a value and no attribute.
Cookie(name, value) ==
    [name |-> name, value |-> value, path |-> <<>>, http_only |-> FALSE,
     same_site |-> "", expires |-> <<>>, max_age |-> <<>>]

\* Cookie::make_removal: empty value, zero max-age, an expiry in the past.
make_removal(cookie) ==
    [cookie EXCEPT !.value = <<>>, !.max_age = <<0>>, !.expires = <<-1>>]

\* The jar a handler receives: the request's access_token cookie, if any,
\* and no change yet.
CookieJar(cookie) ==
    [original |-> IF cookie = <<>> THEN <<>> ELSE <<Cookie("access_token", cookie)>>,
     delta |-> <<>>]

\* CookieJar::get
jar_get(jar, name) == SelectSeq(jar.original, LAMBDA c : c.name = name)

\* CookieJar::add
jar_add(jar, cookie) ==
    [jar EXCEPT !.delta = SelectSeq(@, LAMBDA c : c.name # cookie.name) \o <<cookie>>]

\* CookieJar::remove: a removal cookie when the request carried the cookie,
\* otherwise only a pending change of that name is dropped.
jar_remove(jar, cookie) ==
    IF jar_get(jar, cookie.name) # <<>>
    THEN [jar EXCEPT !.delta = SelectSeq(@, LAMBDA c : c.name # cookie.name)
                                  \o <<make_removal(cookie)>>]
    ELSE [jar EXCEPT !.delta = SelectSeq(@, LAMBDA c : c.name # cookie.name)]

---------------------------------------------------------------------------
(* Requests and responses.                                                 *)

NoResponse ==
    [status |-> 0, location |-> <<>>, set_cookie |-> <<>>, text |-> <<>>,
     json |-> <<>>]

\* (StatusCode, String)
ErrorResponse(status, text) == [NoResponse EXCEPT !.status = status, !.text = text]

\* Redirect::to
RedirectTo(url) == [NoResponse EXCEPT !.status = SEE_OTHER, !.location = <<url>>]

RootUrl == [path |-> <<"/">>]

\* A request as it enters its handler: the route, the path's provider name,
\* the query, the cookie it carries; the handler's locals, empty; what it
\* has done so far (clock readings, tokens signed, upstream calls made and
\* their answers, whether the protected handler ran), nothing.
NewRequest(kind, name, code, state, cookie) ==
    [kind |-> kind, pc |-> "start", name |-> name, code |-> code,
     state |-> state, jar |-> CookieJar(cookie),
     action_uuid |-> <<>>, provider |-> <<>>, redirect_uri |-> <<>>,
     access_token |-> "", expire_duration |-> 0, user_info |-> <<>>,
     token |-> <<>>, now |-> <<>>,
     signed |-> <<>>, upstream |-> <<>>, replies |-> <<>>, extensions |-> <<>>,
     handler_ran |-> FALSE, resp |-> NoResponse]

\* The path of a request's URI, by segments, as the router matches it.
route(kind, name) ==
    CASE kind = "user"     -> <<"api", "user">>
      [] kind = "list"     -> <<"api", "oauth", "providers">>
      [] kind = "login"    -> <<"api", "oauth", name, "login">>
      [] kind = "callback" -> <<"api", "oauth", name, "callback">>
      [] kind = "logout"   -> <<"api", "logout">>
      [] OTHER             -> <<>>

Idle == [NewRequest("none", "", "", <<>>, <<>>) EXCEPT !.pc = "idle"]

\* A request that ends with a response.
Respond(r, resp) == [r EXCEPT !.pc = "done", !.resp = resp]

\* A request whose handler panics: the connection is dropped, no response.
Panic(r) == [r EXCEPT !.pc = "panicked"]

Free(s) == req[s].pc \in {"idle", "done", "panicked"}

---------------------------------------------------------------------------
(* The tokens a client may send.                                           *)

SampleUser ==
    UnifiedUserInfo("7", "alice", "a@x", "p1", BlessingSkin(BaseUrl("skin1", 1)), <<>>)

CredentialPayloads ==
    {TokenInformation("at1", "p1", e, SampleUser) : e \in 0..(MaxClock + 1)}

NoncePayloads == {Uuid(n) : n \in Nonces}

\* Another payload of the same shape.
OtherPayload(p) ==
    IF p.ty = "Uuid"
    THEN Uuid((p.nonce % MaxNonce) + 1)
    ELSE [p EXCEPT !.expire_date = (p.expire_date + 1) % (MaxClock + 2),
                   !.user_info.uid = "1"]

\* A token of the codec's form over arbitrary JSON claims.
RawToken(claims, key) ==
    LET header == [alg |-> "HS256"]
    IN [wf |-> TRUE, header |-> header, claims |-> claims,
        sig |-> Hmac(key, header, claims)]

\* For a payload: the token signed under k1, the same signed under k2, and
\* the k1 token with its signature, its header or its claims altered, or
\* cut short.
TokensOf(p) ==
    LET t == sign_with_key(p, "k1")
    IN {t,
        sign_with_key(p, "k2"),
        [t EXCEPT !.sig.key = "flipped"],
        [t EXCEPT !.header.alg = "none"],
        [t EXCEPT !.claims = ToJson(OtherPayload(p))],
        [t EXCEPT !.wf = FALSE]}

\* Signed JSON of neither shape, and a credential naming an unknown kind.
OddTokens ==
    {RawToken([j |-> "object", sub |-> "x"], "k1"),
     RawToken([j |-> "string", uuid |-> 0], "k1"),
     RawToken([ToJson(TokenInformation("at1", "p1", MaxClock + 1, SampleUser))
                  EXCEPT !.user_info.provider_type.head = "github"], "k1")}

\* The tokens that have, or are derived from, a payload of the given shape,
\* with the odd ones and one sample of the other shape.
InputsFor(shape) ==
    UNION {TokensOf(p) : p \in {q \in CredentialPayloads \cup NoncePayloads : q.ty = shape}}
    \cup OddTokens
    \cup TokensOf(IF shape = "Uuid"
                  THEN TokenInformation("at1", "p1", MaxClock + 1, SampleUser)
                  ELSE Uuid(1))

\* The tokens the server has handed out in responses still on record.
IssuedTokens ==
    UNION {{req[s].resp.set_cookie[i].value[1] :
                i \in {k \in DOMAIN req[s].resp.set_cookie :
                          req[s].resp.set_cookie[k].value # <<>>}} : s \in Slots}
    \cup UNION {{req[s].resp.location[i].state :
                i \in {k \in DOMAIN req[s].resp.location :
                          "state" \in DOMAIN req[s].resp.location[k]}} : s \in Slots}

\* The cookie header of a request: none, or a token.
CookieInputs == {<<>>} \cup {<<t>> : t \in InputsFor("TokenInformation") \cup IssuedTokens}

\* The state parameter of a callback.
StateInputs == InputsFor("Uuid") \cup IssuedTokens

\* The cookie header of a request whose handler does not read its value.
CookieSamples == {<<>>, <<sign_with_key(TokenInformation("at1", "p1", MaxClock + 1, SampleUser), "k1")>>}

---------------------------------------------------------------------------
(* The handlers.                                                           *)

\* OAuthProviderType::display_name
display_name(ptype) ==
    IF ptype.kind = "BlessingSkin"
    THEN [text |-> "Blessing Skin", prefix |-> <<ptype.url>>]
    ELSE [text |-> "Microsoft", prefix |-> <<>>]

\* list_providers: the enabled providers, in the map's (unspecified) order.
list_providers(r) ==
    Respond(r, [NoResponse EXCEPT
        !.status = OK,
        !.json = <<[providers |->
            {[name |-> e[1],
              type |-> TypeToString(e[2].provider_type),
              display_name |-> display_name(e[2].provider_type),
              login_url |-> <<"/api/oauth/", e[1], "/login">>] :
                e \in get_enabled_providers}]>>])

\* A check that lets every configured provider through.
provider_disabled_never(provider_config) == FALSE

\* The check `!provider_config.enabled`.
provider_disabled(provider_config) == ~provider_config.enabled

\* A login that also hands the client a cookie naming the pending attempt.
login_remembered(r, nonce) ==
    LET provider_config == get_provider(r.name)
    IN IF provider_config = <<>>
       THEN Respond(r, ErrorResponse(NOT_FOUND, <<"Provider ", r.name, " not found">>))
       ELSE IF provider_disabled(provider_config[1])
       THEN Respond(r, ErrorResponse(FORBIDDEN, <<"Provider ", r.name, " is disabled">>))
       ELSE LET redirect_uri == get_redirect_uri(r.name)
                made == create_oauth_provider(provider_config[1], r.name)
            IN IF made.panic
               THEN Panic([r EXCEPT !.redirect_uri = redirect_uri])
               ELSE LET state_token == sign_with_key(Uuid(nonce), secret)
                        auth_url == get_authorize_url(made.val[1], redirect_uri, state_token)
                        jar == jar_add(r.jar, Cookie("oauth_state", <<state_token>>))
                    IN Respond([r EXCEPT !.redirect_uri = redirect_uri,
                                         !.provider = made.val,
                                         !.signed = <<state_token>>,
                                         !.jar = jar],
                               [RedirectTo(auth_url) EXCEPT !.set_cookie = jar.delta])

\* login: resolve the provider, refuse a disabled one, build the client,
\* sign a fresh nonce as the state token and redirect to the authorize URL.
login(r, nonce) ==
    LET provider_config == get_provider(r.name)
    IN IF provider_config = <<>>
       THEN Respond(r, ErrorResponse(NOT_FOUND, <<"Provider ", r.name, " not found">>))
       ELSE IF provider_disabled(provider_config[1])
       THEN Respond(r, ErrorResponse(FORBIDDEN, <<"Provider ", r.name, " is disabled">>))
       ELSE LET redirect_uri == get_redirect_uri(r.name)
                made == create_oauth_provider(provider_config[1], r.name)
            IN IF made.panic
               THEN Panic([r EXCEPT !.redirect_uri = redirect_uri])
               ELSE LET state_token == sign_with_key(Uuid(nonce), secret)
                        auth_url == get_authorize_url(made.val[1], redirect_uri, state_token)
                    IN Respond([r EXCEPT !.redirect_uri = redirect_uri,
                                         !.provider = made.val,
                                         !.signed = <<state_token>>],
                               RedirectTo(auth_url))

\* callback, after the state check and up to its first await: resolve the
\* provider, build the client.
callback_resolve(r) ==
    LET provider_config == get_provider(r.name)
    IN IF provider_config = <<>>
       THEN Respond(r, ErrorResponse(NOT_FOUND, <<"Provider ", r.name, " not found">>))
       ELSE LET redirect_uri == get_redirect_uri(r.name)
                made == create_oauth_provider(provider_config[1], r.name)
            IN IF made.panic
               THEN Panic([r EXCEPT !.redirect_uri = redirect_uri])
               ELSE [r EXCEPT !.redirect_uri = redirect_uri,
                              !.provider = made.val,
                              !.pc = "exchange"]

\* A callback that never looks at the state parameter.
callback_begin_unverified(r) == callback_resolve(r)

\* A callback that takes each state token once: it refuses a state that
\* another callback on record has already passed.
callback_begin_once(r) ==
    LET action_uuid == verify_with_key(r.state[1], secret, "Uuid")
        used == \E x \in Slots : /\ req[x].kind = "callback"
                                 /\ req[x].state = r.state
                                 /\ req[x].action_uuid # <<>>
    IN IF ~action_uuid.ok \/ used
       THEN Respond(r, ErrorResponse(UNAUTHORIZED, <<"State verification failed">>))
       ELSE callback_resolve([r EXCEPT !.action_uuid = action_uuid.val])

\* callback, up to its first await: verify the state, then resolve.
callback_begin(r) ==
    LET action_uuid == verify_with_key(r.state[1], secret, "Uuid")
    IN IF ~action_uuid.ok
       THEN Respond(r, ErrorResponse(UNAUTHORIZED, <<"State verification failed">>))
       ELSE callback_resolve([r EXCEPT !.action_uuid = action_uuid.val])

\* callback, step 1: exchange the code for the access token.
callback_exchange(r, reply) ==
    LET got == exchange_token(r.provider[1], r.code, r.redirect_uri, reply)
        called == [r EXCEPT !.upstream = @ \o got.calls, !.replies = @ \o <<reply>>]
    IN IF ~got.result.ok
       THEN Respond(called, ErrorResponse(INTERNAL_SERVER_ERROR, <<got.result.err>>))
       ELSE [called EXCEPT !.access_token = got.result.val[1].access_token,
                           !.expire_duration = got.result.val[1].expire_duration,
                           !.pc = "user_info"]

\* An identity fetch that presents the authorization code as the bearer.
callback_user_info_by_code(r, reply) ==
    LET got == get_user_info(r.provider[1], r.code, reply)
        called == [r EXCEPT !.upstream = @ \o got.calls, !.replies = @ \o <<reply>>]
    IN IF ~got.result.ok
       THEN Respond(called, ErrorResponse(INTERNAL_SERVER_ERROR, <<got.result.err>>))
       ELSE [called EXCEPT !.user_info = got.result.val, !.pc = "sign"]

\* callback, step 2: fetch the user's identity with the access token.
callback_user_info(r, reply) ==
    LET got == get_user_info(r.provider[1], r.access_token, reply)
        called == [r EXCEPT !.upstream = @ \o got.calls, !.replies = @ \o <<reply>>]
    IN IF ~got.result.ok
       THEN Respond(called, ErrorResponse(INTERNAL_SERVER_ERROR, <<got.result.err>>))
       ELSE [called EXCEPT !.user_info = got.result.val, !.pc = "sign"]

\* A credential that forgets the token's lifetime.
mint_without_ttl(access_token, provider_name, user_info, now, expire_duration) ==
    TokenInformation(access_token, provider_name, now, user_info)

\* The TokenInformation callback builds.
mint(access_token, provider_name, user_info, now, expire_duration) ==
    TokenInformation(access_token, provider_name, now + expire_duration, user_info)

\* callback, step 3, first half: build the credential at the clock's time
\* and sign it.
callback_sign(r, now) ==
    LET token == sign_with_key(
                    mint(r.access_token, r.name, r.user_info[1], now, r.expire_duration),
                    secret)
    IN [r EXCEPT !.now = @ \o <<now>>, !.token = <<token>>,
                 !.signed = @ \o <<token>>, !.pc = "cookie"]

\* callback, step 3, second half: the cookie, expiring expire_duration after
\* the clock's time now, and the redirect to the root.
callback_cookie(r, now) ==
    LET token_cookie ==
            [Cookie("access_token", r.token) EXCEPT
                !.path = <<"/">>, !.http_only = TRUE, !.same_site = "Strict",
                !.expires = <<now + r.expire_duration>>]
        jar == jar_add(r.jar, token_cookie)
    IN Respond([r EXCEPT !.jar = jar, !.now = @ \o <<now>>],
               [RedirectTo(RootUrl) EXCEPT !.set_cookie = jar.delta])

\* A logout whose removal cookie names no path.
logout_without_path(r) ==
    LET jar == jar_remove(r.jar, Cookie("access_token", <<>>))
    IN Respond([r EXCEPT !.jar = jar],
               [RedirectTo(RootUrl) EXCEPT !.set_cookie = jar.delta])

\* logout: remove the access_token cookie at path / and redirect to the root.
logout(r) ==
    LET token_cookie == [Cookie("access_token", <<>>) EXCEPT !.path = <<"/">>]
        jar == jar_remove(r.jar, token_cookie)
    IN Respond([r EXCEPT !.jar = jar],
               [RedirectTo(RootUrl) EXCEPT !.set_cookie = jar.delta])

\* A handler that answers with a stock identity, whatever the request holds.
get_user_stock(r) ==
    Respond([r EXCEPT !.handler_ran = TRUE],
            [NoResponse EXCEPT !.status = OK, !.json = <<SampleUser>>])

\* impl FromRequestParts for UnifiedUserInfo, then get_user.
get_user(r) ==
    IF r.extensions = <<>>
    THEN Respond([r EXCEPT !.handler_ran = TRUE],
                 ErrorResponse(UNAUTHORIZED, <<"Authentication required">>))
    ELSE Respond([r EXCEPT !.handler_ran = TRUE],
                 [NoResponse EXCEPT !.status = OK, !.json = <<r.extensions[1]>>])

\* The expiry test of auth_middleware.
expired(now, expire_date) == now > expire_date

\* A middleware that hands a request without a cookie on to the handler.
not_authenticated_passed_on(r) == get_user(r)

\* auth_middleware's answer to a request without an access_token cookie:
\* 401 and the jar as it came.
not_authenticated(r) ==
    Respond(r, [ErrorResponse(UNAUTHORIZED, <<"Not authenticated">>)
                    EXCEPT !.set_cookie = r.jar.delta])

\* auth_middleware in front of get_user.
auth_middleware(r, now) ==
    LET token_cookie == jar_get(r.jar, "access_token")
    IN IF token_cookie = <<>>
       THEN not_authenticated(r)
       ELSE LET token_claims ==
                    verify_with_key(token_cookie[1].value[1], secret, "TokenInformation")
                cleared == jar_remove(r.jar, Cookie("access_token", <<>>))
            IN IF ~token_claims.ok
               THEN Respond([r EXCEPT !.jar = cleared],
                            [ErrorResponse(UNAUTHORIZED, <<"Invalid token">>)
                                EXCEPT !.set_cookie = cleared.delta])
               ELSE IF expired(now, token_claims.val[1].expire_date)
               THEN Respond([r EXCEPT !.jar = cleared, !.now = <<now>>],
                            [ErrorResponse(UNAUTHORIZED, <<"Login token expired">>)
                                EXCEPT !.set_cookie = cleared.delta])
               ELSE get_user([r EXCEPT !.now = <<now>>, !.extensions =
                                <<token_claims.val[1].user_info>>])

---------------------------------------------------------------------------
(* The state machine.                                                      *)

Init ==
    /\ clock = 0
    /\ providers = Registry
    /\ prefix_url = PrefixUrl
    /\ secret_key = "k1"
    /\ req = [s \in Slots |-> Idle]

Frame == UNCHANGED <<providers, prefix_url, secret_key>>

\* Time passes.
Tick ==
    /\ clock < MaxClock
    /\ clock' = clock + 1
    /\ UNCHANGED req
    /\ Frame

\* GET /api/oauth/providers
ListProviders(s) ==
    /\ Free(s)
    /\ req' = [req EXCEPT ![s] = list_providers(NewRequest("list", "", "", <<>>, <<>>))]
    /\ UNCHANGED clock
    /\ Frame

\* GET /api/oauth/{provider}/login, for the names given
LoginOf(s, names) ==
    /\ Free(s)
    /\ \E name \in names, nonce \in Nonces :
          req' = [req EXCEPT ![s] = login(NewRequest("login", name, "", <<>>, <<>>), nonce)]
    /\ UNCHANGED clock
    /\ Frame

Login(s) == LoginOf(s, Names)

\* GET /api/oauth/{provider}/callback?code&state, for the names, states
\* and cookies given
CallbackBeginOf(s, names, states, cookies) ==
    /\ Free(s)
    /\ \E name \in names, code \in Codes, state \in states, cookie \in cookies :
          req' = [req EXCEPT ![s] =
                    callback_begin(NewRequest("callback", name, code, <<state>>, cookie))]
    /\ UNCHANGED clock
    /\ Frame

CallbackBegin(s) == CallbackBeginOf(s, Names, StateInputs, CookieSamples)

\* The token endpoint answers with one of the replies given.
CallbackExchangeOf(s, replies) ==
    /\ req[s].kind = "callback"
    /\ req[s].pc = "exchange"
    /\ \E reply \in replies :
          req' = [req EXCEPT ![s] = callback_exchange(req[s], reply)]
    /\ UNCHANGED clock
    /\ Frame

CallbackExchange(s) == CallbackExchangeOf(s, TokenReplies)

\* The user endpoints answer with one of the replies given.
CallbackUserInfoOf(s, replies) ==
    /\ req[s].kind = "callback"
    /\ req[s].pc = "user_info"
    /\ \E reply \in replies :
          req' = [req EXCEPT ![s] = callback_user_info(req[s], reply)]
    /\ UNCHANGED clock
    /\ Frame

CallbackUserInfo(s) == CallbackUserInfoOf(s, UserReplies)

\* A signing step that takes the identity from a place all requests share:
\* the one another request in flight has fetched, when there is one.
CallbackSign_shared(s) ==
    /\ req[s].kind = "callback"
    /\ req[s].pc = "sign"
    /\ LET others == {x \in Slots \ {s} : req[x].user_info # <<>>}
           mine == IF others = {} THEN req[s]
                   ELSE [req[s] EXCEPT !.user_info =
                            req[CHOOSE x \in others : TRUE].user_info]
       IN req' = [req EXCEPT ![s] = callback_sign(mine, clock)]
    /\ UNCHANGED clock
    /\ Frame

CallbackSign(s) ==
    /\ req[s].kind = "callback"
    /\ req[s].pc = "sign"
    /\ req' = [req EXCEPT ![s] = callback_sign(req[s], clock)]
    /\ UNCHANGED clock
    /\ Frame

CallbackCookie(s) ==
    /\ req[s].kind = "callback"
    /\ req[s].pc = "cookie"
    /\ req' = [req EXCEPT ![s] = callback_cookie(req[s], clock)]
    /\ UNCHANGED clock
    /\ Frame

\* A logout that revokes what was signed so far by changing the key.
Logout_revoking(s) ==
    /\ Free(s)
    /\ \E cookie \in CookieInputs :
          req' = [req EXCEPT ![s] = logout(NewRequest("logout", "", "", <<>>, cookie))]
    /\ secret_key' = "k2"
    /\ UNCHANGED <<clock, providers, prefix_url>>

\* GET /api/logout, with one of the cookies given
LogoutOf(s, cookies) ==
    /\ Free(s)
    /\ \E cookie \in cookies :
          req' = [req EXCEPT ![s] = logout(NewRequest("logout", "", "", <<>>, cookie))]
    /\ UNCHANGED clock
    /\ Frame

Logout(s) == LogoutOf(s, CookieInputs)

\* GET /api/user, behind auth_middleware, with one of the cookies given
ProtectedOf(s, cookies) ==
    /\ Free(s)
    /\ \E cookie \in cookies :
          req' = [req EXCEPT ![s] =
                    auth_middleware(NewRequest("user", "", "", <<>>, cookie), clock)]
    /\ UNCHANGED clock
    /\ Frame

Protected(s) == ProtectedOf(s, CookieInputs)

Serve(s) ==
    \/ ListProviders(s)
    \/ Login(s)
    \/ CallbackBegin(s)
    \/ CallbackExchange(s)
    \/ CallbackUserInfo(s)
    \/ CallbackSign(s)
    \/ CallbackCookie(s)
    \/ Logout(s)
    \/ Protected(s)

\* Requests served one at a time.
Next == Tick \/ \E s \in SeqSlots : Serve(s)

Spec == Init /\ [][Next]_vars

\* The session cookies and the states on record in the responses.
IssuedCookies == {<<t>> : t \in {x \in IssuedTokens : x.claims.j = "object"}}
IssuedStates == {t \in IssuedTokens : t.claims.j = "string"}

\* Requests served concurrently: a step of any request in flight, or a new
\* request in a free slot, in any order. The requests are for providers p1 and p2;
\* a callback brings a state login issued, a logout or protected request a
\* session cookie callback issued or none; the upstream answers succeed
\* for either account with one lifetime, or fail at the first call.
ServeConcurrently(s) ==
    \/ ListProviders(s)
    \/ LoginOf(s, {"p1", "p2"})
    \/ CallbackBeginOf(s, {"p1"}, IssuedStates, {<<>>})
    \/ CallbackExchangeOf(s, {r \in TokenReplies :
            ~r.ok \/ (r.access_token = "at1" /\ r.expires_in = MaxTtl)})
    \/ CallbackUserInfoOf(s, {r \in UserReplies :
            r.fail_at = 0 \/ (r.fail_at = 1 /\ r.account.uid = 8)})
    \/ CallbackSign(s)
    \/ CallbackCookie(s)
    \/ LogoutOf(s, {<<>>} \cup IssuedCookies)
    \/ ProtectedOf(s, {<<>>} \cup IssuedCookies)

NextConc == Tick \/ \E s \in Slots : ServeConcurrently(s)

SpecConc == Init /\ [][NextConc]_vars

\* What a client that does not hold the process key can send as a token:
\* a token a response on record handed out, a credential among those with
\* its claims rewritten under the signature it came with, and a credential
\* or a state signed under a key of the client's own.
ClientTokens ==
    IssuedTokens
    \cup {[t EXCEPT !.claims.user_info.nickname = "mallory",
                    !.claims.expire_date = TimeToJson(MaxClock + 1)] :
            t \in {x \in IssuedTokens : x.claims.j = "object"}}
    \cup {sign_with_key(TokenInformation("at1", "p1", MaxClock + 1, SampleUser), "k2"),
          sign_with_key(Uuid(1), "k2")}

\* Requests from such clients, served concurrently: the cookie of a
\* protected request and the state of a callback are any token the client
\* can send; the rest as in ServeConcurrently.
ServeClient(s) ==
    \/ ListProviders(s)
    \/ LoginOf(s, {"p1", "p2"})
    \/ CallbackBeginOf(s, {"p1"}, ClientTokens, {<<>>})
    \/ CallbackExchangeOf(s, {r \in TokenReplies :
            ~r.ok \/ (r.access_token = "at1" /\ r.expires_in = MaxTtl)})
    \/ CallbackUserInfoOf(s, {r \in UserReplies :
            r.fail_at = 0 \/ (r.fail_at = 1 /\ r.account.uid = 8)})
    \/ CallbackSign(s)
    \/ CallbackCookie(s)
    \/ LogoutOf(s, {<<>>} \cup IssuedCookies)
    \/ ProtectedOf(s, {<<>>} \cup {<<t>> : t \in ClientTokens})

NextClient == Tick \/ \E s \in Slots : ServeClient(s)

SpecClient == Init /\ [][NextClient]_vars

---------------------------------------------------------------------------
(* Properties.                                                             *)

\* A token is a genuine token of the process for a payload type: it is well
\* formed, its MAC is the process key's MAC of its header and claims, and
\* its claims are JSON of that type.
Verifies(t, target) ==
    /\ t.wf
    /\ t.header.alg = "HS256"
    /\ t.sig = Hmac(secret_key, t.header, t.claims)
    /\ FromJson(target, t.claims).ok

Decoded(t, target) == FromJson(target, t.claims).val[1]

\* t2 is t with one part altered and the others kept.
AlteredFrom(t2, t) ==
    /\ t2 # t
    /\ \/ t2.sig = t.sig
       \/ t2.header = t.header /\ t2.claims = t.claims

Served(s, kind) == req[s].kind = kind /\ req[s].pc \in {"done", "panicked"}

CookieOf(s) == req[s].jar.original

CookieToken(s) == req[s].jar.original[1].value[1]

\* The inverse of urlencoding::encode on the atoms of the model.
DecodeAtom(a) ==
    CASE a = "%3A" -> ":"
      [] a = "%2F" -> "/"
      [] a = "%26" -> "&"
      [] a = "%20" -> " "
      [] OTHER -> a

UrlDecode(str) == [i \in DOMAIN str |-> DecodeAtom(str[i])]

\* C1: for every request through auth_middleware the handler runs only if
\* the request carries an access_token cookie that verifies under the
\* process key as a session credential and the clock read is before its
\* expire_at; in every other case the handler does not run and the
\* response is 401.
C1_HandlerOnlyIfValidAndFresh ==
    \A s \in Slots :
        Served(s, "user") =>
            LET valid ==
                    /\ CookieOf(s) # <<>>
                    /\ Verifies(CookieToken(s), "TokenInformation")
                    /\ req[s].now # <<>>
                    /\ req[s].now[1] <
                          Decoded(CookieToken(s), "TokenInformation").expire_date
            IN /\ req[s].handler_ran => valid
               /\ ~valid => ~req[s].handler_ran /\ req[s].resp.status = UNAUTHORIZED

\* C2: a validly signed session credential is rejected with 401 whenever the
\* clock read is at or after its expire_at, the instant expire_at included,
\* and the handler does not run.
C2_ExpiredAtOrAfterRejected ==
    \A s \in Slots :
        (/\ Served(s, "user")
         /\ CookieOf(s) # <<>>
         /\ Verifies(CookieToken(s), "TokenInformation")
         /\ req[s].now # <<>>
         /\ req[s].now[1] >= Decoded(CookieToken(s), "TokenInformation").expire_date)
        => (req[s].resp.status = UNAUTHORIZED /\ ~req[s].handler_ran)

\* C3: a callback whose state does not verify under the process key ends
\* with 401, has built no provider client, made no upstream call and set no
\* cookie, whatever the provider name and code.
C3_BadStateStopsCallback ==
    \A s \in Slots :
        (req[s].kind = "callback" /\ ~Verifies(req[s].state[1], "Uuid"))
        => /\ req[s].pc = "done"
           /\ req[s].resp.status = UNAUTHORIZED
           /\ req[s].upstream = <<>>
           /\ req[s].provider = <<>>
           /\ req[s].signed = <<>>
           /\ req[s].resp.set_cookie = <<>>

C3_Witness ==
    \E s \in Slots :
        /\ req[s].kind = "callback"
        /\ req[s].name = "p1"
        /\ req[s].state[1] = sign_with_key(Uuid(1), "k2")
        /\ req[s].resp.status = UNAUTHORIZED

\* Payloads of both shapes, as the process may sign them.
SignedPayloads == CredentialPayloads \cup NoncePayloads

\* A token that is an alteration of a token the process signed, or is
\* signed under another key.
Forged(t2) ==
    \E p \in SignedPayloads :
        \/ AlteredFrom(t2, sign_with_key(p, secret_key))
        \/ \E k \in Keys \ {secret_key} : t2 = sign_with_key(p, k)

\* C4: a token that differs from a token signed under the process key in
\* its payload or in its signature, or that is signed under another key,
\* fails verification in callback and in auth_middleware; and a payload
\* verification returns is the payload the presented token was signed for.
C4_TamperDetected ==
    \A s \in Slots :
        /\ req[s].kind = "callback" =>
              /\ Forged(req[s].state[1]) =>
                    (req[s].action_uuid = <<>> /\ req[s].resp.status = UNAUTHORIZED)
              /\ req[s].action_uuid # <<>> =>
                    req[s].state[1] = sign_with_key(req[s].action_uuid[1], secret_key)
        /\ (Served(s, "user") /\ CookieOf(s) # <<>>) =>
              /\ Forged(CookieToken(s)) =>
                    (req[s].extensions = <<>> /\ req[s].resp.status = UNAUTHORIZED)
              /\ req[s].extensions # <<>> =>
                    LET p == Decoded(CookieToken(s), "TokenInformation")
                    IN /\ CookieToken(s) = sign_with_key(p, secret_key)
                       /\ req[s].extensions[1] = p.user_info

C4_Witness ==
    \E s \in Slots, p \in CredentialPayloads :
        /\ Served(s, "user")
        /\ CookieOf(s) # <<>>
        /\ CookieToken(s) =
              [sign_with_key(p, secret_key) EXCEPT !.claims = ToJson(OtherPayload(p))]
        /\ req[s].resp.status = UNAUTHORIZED

\* The session cookie of a response, when it sets exactly that cookie.
SessionCookie(s) == req[s].resp.set_cookie[1]

\* C5: a callback with a verifying state and a configured provider whose
\* exchange and identity fetch succeed answers with a redirect to / and an
\* access_token cookie that verifies to a credential carrying the path's
\* provider name (also as identity.provider), the exchange's access token
\* and expire_at = the minting clock reading + the exchange's ttl.
C5_CallbackMintsCredential ==
    \A s \in Slots :
        (/\ req[s].kind = "callback"
         /\ req[s].pc = "done"
         /\ Verifies(req[s].state[1], "Uuid")
         /\ req[s].name \in DOMAIN providers
         /\ Len(req[s].replies) = 2
         /\ req[s].replies[1].ok
         /\ req[s].replies[2].fail_at = 0)
        => /\ req[s].resp.status = SEE_OTHER
           /\ req[s].resp.location = <<RootUrl>>
           /\ Len(req[s].resp.set_cookie) = 1
           /\ SessionCookie(s).name = "access_token"
           /\ Len(SessionCookie(s).value) = 1
           /\ Verifies(SessionCookie(s).value[1], "TokenInformation")
           /\ LET c == Decoded(SessionCookie(s).value[1], "TokenInformation")
              IN /\ c.provider_name = req[s].name
                 /\ c.user_info.provider = req[s].name
                 /\ c.access_token = req[s].replies[1].access_token
                 /\ c.expire_date =
                       req[s].now[1] + from_secs(req[s].replies[1].expires_in)

C5_Witness ==
    \E s \in Slots :
        /\ req[s].kind = "callback"
        /\ req[s].pc = "done"
        /\ req[s].name = "p1"
        /\ req[s].resp.status = SEE_OTHER
        /\ req[s].replies[1].expires_in > 0
        /\ req[s].now[1] > 0
        /\ req[s].resp.set_cookie # <<>>

Implemented(name) == providers[name].provider_type.kind = "BlessingSkin"

\* C6: login for a configured, enabled provider of an implemented kind
\* redirects to that provider's authorize URL, which carries the provider's
\* client_id, its callback URL and a state that verifies under the process
\* key.
C6_LoginRedirectsToAuthorize ==
    \A s \in Slots :
        (/\ req[s].kind = "login"
         /\ req[s].name \in DOMAIN providers
         /\ providers[req[s].name].enabled
         /\ Implemented(req[s].name))
        => /\ req[s].pc = "done"
           /\ req[s].resp.status = SEE_OTHER
           /\ Len(req[s].resp.location) = 1
           /\ LET url == req[s].resp.location[1]
                  cfg == providers[req[s].name]
              IN /\ url.base.host = cfg.provider_type.url.host
                 /\ url.path = <<"/", "oauth", "/", "authorize">>
                 /\ UrlDecode(url.client_id) = cfg.client_id
                 /\ UrlDecode(url.redirect_uri) =
                       prefix_url \o <<"/", "api", "/", "oauth", "/", req[s].name,
                                       "/", "callback">>
                 /\ Verifies(url.state, "Uuid")

C6_Witness ==
    \E s \in Slots :
        /\ req[s].kind = "login"
        /\ req[s].name = "p1"
        /\ req[s].resp.status = SEE_OTHER
        /\ req[s].resp.location # <<>>

\* C7: login for a configured provider that is disabled returns 403 with no
\* redirect, signs no state token and builds no provider client.
C7_LoginDisabledForbidden ==
    \A s \in Slots :
        (/\ req[s].kind = "login"
         /\ req[s].name \in DOMAIN providers
         /\ ~providers[req[s].name].enabled)
        => /\ req[s].pc = "done"
           /\ req[s].resp.status = FORBIDDEN
           /\ req[s].resp.location = <<>>
           /\ req[s].signed = <<>>
           /\ req[s].provider = <<>>

C7_Witness ==
    \E s \in Slots :
        /\ req[s].kind = "login"
        /\ req[s].name = "p2"
        /\ req[s].resp.status = FORBIDDEN

\* C8: login for a name that is no key of the registry returns 404 with no
\* redirect.
C8_LoginUnknownNotFound ==
    \A s \in Slots :
        (req[s].kind = "login" /\ req[s].name \notin DOMAIN providers)
        => /\ req[s].pc = "done"
           /\ req[s].resp.status = NOT_FOUND
           /\ req[s].resp.location = <<>>

C8_Witness ==
    \E s \in Slots :
        /\ req[s].kind = "login"
        /\ req[s].name = "ghost"
        /\ req[s].resp.status = NOT_FOUND

\* C9 as stated: callback for a name that is no key of the registry returns
\* 404 whatever the code and state, a state that does not verify included.
C9_CallbackUnknownAlwaysNotFound ==
    \A s \in Slots :
        (req[s].kind = "callback" /\ req[s].name \notin DOMAIN providers)
        => (req[s].pc = "done" /\ req[s].resp.status = NOT_FOUND)

\* C9, amended: callback for a name that is no key of the registry returns
\* 404 when its state verifies under the process key, and 401 when it does
\* not (the state is checked before the provider is resolved).
C9_CallbackUnknownNotFoundAfterState ==
    \A s \in Slots :
        (req[s].kind = "callback" /\ req[s].name \notin DOMAIN providers)
        => /\ req[s].pc = "done"
           /\ req[s].upstream = <<>>
           /\ req[s].resp.set_cookie = <<>>
           /\ Verifies(req[s].state[1], "Uuid") => req[s].resp.status = NOT_FOUND
           /\ ~Verifies(req[s].state[1], "Uuid") => req[s].resp.status = UNAUTHORIZED

C9_Witness ==
    \E s \in Slots :
        /\ req[s].kind = "callback"
        /\ req[s].name = "ghost"
        /\ Verifies(req[s].state[1], "Uuid")
        /\ req[s].resp.status = NOT_FOUND

\* C10: callback makes login's disabled check: for a configured provider
\* that is disabled it returns 403, makes no token exchange and sets no
\* cookie, also when the state verifies.
C10_CallbackDisabledForbidden ==
    \A s \in Slots :
        (/\ req[s].kind = "callback"
         /\ req[s].name \in DOMAIN providers
         /\ ~providers[req[s].name].enabled
         /\ Verifies(req[s].state[1], "Uuid"))
        => /\ req[s].upstream = <<>>
           /\ req[s].resp.set_cookie = <<>>
           /\ req[s].pc = "done" => req[s].resp.status = FORBIDDEN

---------------------------------------------------------------------------
(* A client that stores cookies by (name, path), as RFC 6265 has it.       *)

\* A cookie path of the model as segments: "/" is the empty path.
PathSegments(str) == IF str = "/" THEN <<>> ELSE <<str>>

\* RFC 6265 5.1.4: the default path of a cookie sent without a Path is the
\* request path up to its last segment.
DefaultPath(uri) == IF uri = <<>> THEN <<>> ELSE SubSeq(uri, 1, Len(uri) - 1)

StorePath(c, uri) ==
    IF c.path = <<>> THEN DefaultPath(uri) ELSE PathSegments(c.path[1])

\* A cookie the client drops on receipt.
Evicting(c, now) ==
    \/ c.max_age # <<>> /\ c.max_age[1] <= 0
    \/ c.max_age = <<>> /\ c.expires # <<>> /\ c.expires[1] <= now

\* The client's store after it applies one Set-Cookie of a response to a
\* request for uri: the entry of the same name and path is replaced, or
\* removed when the cookie is expired on receipt.
ClientSet(store, c, uri, now) ==
    LET key == <<c.name, StorePath(c, uri)>>
        rest == {e \in store : <<e.name, e.path>> # key}
    IN IF Evicting(c, now) THEN rest
       ELSE rest \cup {[name |-> c.name, path |-> key[2], value |-> c.value]}

RECURSIVE ClientApply(_, _, _, _)
ClientApply(store, set_cookie, uri, now) ==
    IF set_cookie = <<>> THEN store
    ELSE ClientApply(ClientSet(store, set_cookie[1], uri, now),
                     Tail(set_cookie), uri, now)

\* RFC 6265 5.1.4 path-match: the cookie's path is a prefix of the request's.
PathMatch(path, uri) ==
    Len(path) <= Len(uri) /\ SubSeq(uri, 1, Len(path)) = path

\* The cookies the client sends with a request for uri.
ClientSends(store, uri) == {e \in store : PathMatch(e.path, uri)}

\* The store of a client that holds the cookie a request carried the way
\* callback sets it, at path /, and nothing else.
ClientBefore(s) ==
    IF CookieOf(s) = <<>> THEN {}
    ELSE {[name |-> "access_token", path |-> <<>>, value |-> CookieOf(s)[1].value]}

\* That client's store after it applies the response of the request.
ClientAfter(s) ==
    ClientApply(ClientBefore(s), req[s].resp.set_cookie,
                route(req[s].kind, req[s].name), clock)

HoldsSession(store, uri) ==
    \E e \in ClientSends(store, uri) : e.name = "access_token"

\* C11: when auth_middleware rejects a request that carries an access_token
\* cookie, the 401 response removes the cookie callback set (access_token at
\* path /): a client that stores cookies by name and path and applies the
\* response sends no access_token cookie with its next request.
C11_RejectionClearsSessionCookie ==
    \A s \in Slots :
        (/\ Served(s, "user")
         /\ CookieOf(s) # <<>>
         /\ req[s].resp.status = UNAUTHORIZED)
        => /\ \E c \in {req[s].resp.set_cookie[i] : i \in DOMAIN req[s].resp.set_cookie} :
                 /\ c.name = "access_token"
                 /\ c.path = <<"/">>
                 /\ Evicting(c, clock)
           /\ ~HoldsSession(ClientAfter(s), route("user", ""))

\* C12: a request that reaches auth_middleware without an access_token
\* cookie gets 401, the handler behind the middleware does not run, and the
\* response sets and removes no cookie: the client's store is as it was.
C12_NoCookieShortCircuits ==
    \A s \in Slots :
        (Served(s, "user") /\ CookieOf(s) = <<>>)
        => /\ req[s].pc = "done"
           /\ req[s].resp.status = UNAUTHORIZED
           /\ ~req[s].handler_ran
           /\ req[s].extensions = <<>>
           /\ req[s].resp.set_cookie = <<>>
           /\ ClientAfter(s) = ClientBefore(s)

C12_Witness ==
    \E s \in Slots :
        /\ Served(s, "user")
        /\ CookieOf(s) = <<>>
        /\ req[s].resp.status = UNAUTHORIZED
        /\ req[s].resp.text = <<"Not authenticated">>

\* The removal of the session cookie: access_token at path /, no value,
\* expired on receipt.
SessionRemoval == make_removal([Cookie("access_token", <<>>) EXCEPT !.path = <<"/">>])

\* The access_token cookie a client sends with a request for uri.
SentCookie(store, uri) ==
    IF HoldsSession(store, uri)
    THEN (CHOOSE e \in ClientSends(store, uri) : e.name = "access_token").value
    ELSE <<>>

\* The client logs out once more with what its store holds after a logout.
LogoutAgain(s) ==
    logout(NewRequest("logout", "", "", <<>>,
                      SentCookie(ClientAfter(s), route("logout", ""))))

\* C13 as stated: from any client state logout answers with a redirect to
\* the root and a removal of access_token at path /, and leaves the client
\* without a session cookie, a second time as well.
C13_LogoutAlwaysSendsRemoval ==
    \A s \in Slots :
        Served(s, "logout")
        => /\ req[s].resp.status = SEE_OTHER
           /\ req[s].resp.location = <<RootUrl>>
           /\ req[s].resp.set_cookie = <<SessionRemoval>>
           /\ ~HoldsSession(ClientAfter(s), route("user", ""))
           /\ LogoutAgain(s).resp.status = SEE_OTHER
           /\ LogoutAgain(s).resp.set_cookie = <<SessionRemoval>>

\* C13, amended: from any client state logout answers with a redirect to
\* the root; the response removes access_token at path / when the request
\* carried an access_token cookie and sets no cookie when it carried none;
\* either way the client is left without a session cookie, and logging out
\* again succeeds and leaves it so.
C13_LogoutClearsAndRepeats ==
    \A s \in Slots :
        Served(s, "logout")
        => /\ req[s].pc = "done"
           /\ req[s].resp.status = SEE_OTHER
           /\ req[s].resp.location = <<RootUrl>>
           /\ CookieOf(s) # <<>> => req[s].resp.set_cookie = <<SessionRemoval>>
           /\ CookieOf(s) = <<>> => req[s].resp.set_cookie = <<>>
           /\ ClientAfter(s) = {}
           /\ LogoutAgain(s).pc = "done"
           /\ LogoutAgain(s).resp.status = SEE_OTHER
           /\ LogoutAgain(s).resp.location = <<RootUrl>>
           /\ ClientApply(ClientAfter(s), LogoutAgain(s).resp.set_cookie,
                          route("logout", ""), clock) = {}

C13_Witness ==
    \E s \in Slots :
        /\ Served(s, "logout")
        /\ CookieOf(s) # <<>>
        /\ Verifies(CookieToken(s), "TokenInformation")
        /\ clock < Decoded(CookieToken(s), "TokenInformation").expire_date
        /\ req[s].resp.set_cookie = <<SessionRemoval>>
        /\ ClientBefore(s) # {}
        /\ ClientAfter(s) = {}

\* How many calls a request has made to an upstream endpoint.
CallsTo(s, endpoint) ==
    Cardinality({i \in DOMAIN req[s].upstream : req[s].upstream[i].endpoint = endpoint})

Endpoints ==
    {"/oauth/token", "/api/user", "/api/players",
     "/api/yggdrasil/api/profiles/minecraft"}

ExchangeFailed(s) == Len(req[s].replies) >= 1 /\ ~req[s].replies[1].ok

IdentityFailed(s) == Len(req[s].replies) = 2 /\ req[s].replies[2].fail_at > 0

\* C14: when the token exchange or the identity fetch of a callback fails,
\* the request ends with one 500 response whose body is the upstream
\* failure's message, no token is signed and no cookie is set, nothing is
\* called after the failed call, and no upstream endpoint is called more
\* than once by any callback.
C14_UpstreamFailureIsOneError ==
    \A s \in Slots :
        req[s].kind = "callback"
        => /\ \A e \in Endpoints : CallsTo(s, e) <= 1
           /\ ExchangeFailed(s) =>
                 /\ req[s].pc = "done"
                 /\ req[s].resp.status = INTERNAL_SERVER_ERROR
                 /\ req[s].resp.text = <<req[s].replies[1].msg>>
                 /\ req[s].resp.set_cookie = <<>>
                 /\ req[s].signed = <<>>
                 /\ Len(req[s].replies) = 1
                 /\ Len(req[s].upstream) = 1
           /\ IdentityFailed(s) =>
                 /\ req[s].pc = "done"
                 /\ req[s].resp.status = INTERNAL_SERVER_ERROR
                 /\ req[s].resp.text = <<"user endpoint: request failed">>
                 /\ req[s].resp.set_cookie = <<>>
                 /\ req[s].signed = <<>>
                 /\ Len(req[s].upstream) = 1 + req[s].replies[2].fail_at

C14_Witness ==
    \E s \in Slots :
        /\ req[s].kind = "callback"
        /\ IdentityFailed(s)
        /\ req[s].replies[2].fail_at = 2
        /\ CallsTo(s, "/oauth/token") = 1
        /\ CallsTo(s, "/api/players") = 1
        /\ req[s].resp.status = INTERNAL_SERVER_ERROR

\* C15: the cookie a successful callback sets expires at the expire_at of
\* the credential it carries, also when the clock advances between the
\* steps of the handler.
C15_CookieExpiresAtCredentialExpiry ==
    \A s \in Slots :
        (/\ req[s].kind = "callback"
         /\ req[s].pc = "done"
         /\ req[s].resp.status = SEE_OTHER)
        => /\ Len(req[s].resp.set_cookie) = 1
           /\ SessionCookie(s).expires =
                 <<Decoded(SessionCookie(s).value[1], "TokenInformation").expire_date>>

\* C16: a login or callback that names a configured provider of a kind
\* without implementation (Microsoft) and gets as far as building the
\* provider client ends with an error response: the handler does not
\* panic, and it does not go on as if a client had been built.
C16_UnimplementedKindIsAnError ==
    \A s \in Slots :
        (/\ req[s].kind \in {"login", "callback"}
         /\ req[s].name \in DOMAIN providers
         /\ ~Implemented(req[s].name))
        => /\ req[s].pc # "panicked"
           /\ req[s].provider = <<>>
           /\ req[s].upstream = <<>>
           /\ req[s].pc = "done"
           /\ req[s].resp.status >= 400

\* Signing a payload under the process key and verifying the token under
\* the same key gives the payload back, and signing what was given back
\* gives the same token again.
RoundTrips(p) ==
    LET t == sign_with_key(p, secret_key)
        back == verify_with_key(t, secret_key, p.ty)
    IN /\ back.ok
       /\ back.val = <<p>>
       /\ sign_with_key(back.val[1], secret_key) = t

\* The credential a callback has signed, from what the request holds.
MintedPayload(s) ==
    mint(req[s].access_token, req[s].name, req[s].user_info[1], req[s].now[1],
         req[s].expire_duration)

\* C17: for every payload of either shape, state nonce or session
\* credential, verifying under the process key the token signed for it under
\* that key succeeds and returns exactly the payload, and signing the
\* payload again gives the same token; so for every token a login or a
\* callback has signed.
C17_CodecRoundTrip ==
    /\ \A p \in SignedPayloads : RoundTrips(p)
    /\ \A s \in Slots :
          /\ (req[s].kind = "callback" /\ req[s].signed # <<>>) =>
                /\ req[s].signed = <<sign_with_key(MintedPayload(s), secret_key)>>
                /\ RoundTrips(MintedPayload(s))
          /\ (req[s].kind = "login" /\ req[s].signed # <<>>) =>
                LET back == verify_with_key(req[s].signed[1], secret_key, "Uuid")
                IN /\ back.ok
                   /\ back.val[1] \in NoncePayloads
                   /\ RoundTrips(back.val[1])
                   /\ sign_with_key(back.val[1], secret_key) = req[s].signed[1]

C17_Witness ==
    \E s \in Slots :
        /\ req[s].kind = "callback"
        /\ req[s].pc = "done"
        /\ req[s].signed # <<>>
        /\ MintedPayload(s).expire_date % TicksPerSec # 0
        /\ MintedPayload(s).user_info.profiles # <<>>
        /\ verify_with_key(req[s].signed[1], secret_key, "TokenInformation").val
              = <<MintedPayload(s)>>

\* auth_middleware lets a request with this access_token cookie through to
\* the handler, now.
Accepts(t) ==
    LET r == auth_middleware(NewRequest("user", "", "", <<>>, <<t>>), clock)
    IN r.handler_ran /\ r.resp.status = OK

\* Every credential a callback of this process can have minted: for each
\* implemented provider, access token, account, minting time and lifetime,
\* signed under the key the process started with.
MintableCredentials ==
    {sign_with_key(
        mint(at, n,
             get_user_info(BlessingSkinProvider(Registry[n], n), at,
                           [fail_at |-> 0, account |-> a]).result.val[1],
             now, from_secs(ttl)),
        "k1") :
      at \in AccessTokens, n \in {"p1", "p2"}, a \in Accounts,
      now \in 0..MaxClock, ttl \in 0..MaxTtl}

ExpireDate(t) == FromJson("TokenInformation", t.claims).val[1].expire_date

\* C18: there is no revocation on the server: in every reachable state,
\* so after any number of logouts by any client, the registry, the prefix
\* and the signing key are the ones the process started with, and every
\* credential a callback can have minted, the one a served logout carried
\* included, is accepted by auth_middleware as long as the clock is before
\* its expire_at.
C18_NoServerSideRevocation ==
    /\ providers = Registry
    /\ prefix_url = PrefixUrl
    /\ secret_key = "k1"
    /\ \A t \in MintableCredentials : clock < ExpireDate(t) => Accepts(t)
    /\ \A s \in Slots :
          (/\ Served(s, "logout")
           /\ CookieOf(s) # <<>>
           /\ CookieToken(s) \in MintableCredentials
           /\ clock < ExpireDate(CookieToken(s)))
          => Accepts(CookieToken(s))

\* A logout was served that carried a credential callback had minted (only
\* callback signs for this user) and removed it from the client; the clock
\* is before its expire_at and auth_middleware accepts it.
C18_Witness ==
    \E s \in Slots :
        /\ Served(s, "logout")
        /\ CookieOf(s) # <<>>
        /\ CookieToken(s) \in MintableCredentials
        /\ Decoded(CookieToken(s), "TokenInformation").user_info.nickname = "bob"
        /\ req[s].resp.set_cookie = <<SessionRemoval>>
        /\ clock < ExpireDate(CookieToken(s))
        /\ Accepts(CookieToken(s))

\* The providers a listing names.
Listed(s) == req[s].resp.json[1].providers

\* C19: list_providers, asked without any credential, answers 200 with
\* exactly the providers of the registry whose enabled flag is true, each
\* once, each with the login URL /api/oauth/{name}/login.
C19_ListIsTheEnabledProviders ==
    \A s \in Slots :
        req[s].kind = "list"
        => /\ req[s].pc = "done"
           /\ CookieOf(s) = <<>>
           /\ req[s].resp.status = OK
           /\ req[s].resp.set_cookie = <<>>
           /\ Len(req[s].resp.json) = 1
           /\ {e.name : e \in Listed(s)} =
                 {n \in DOMAIN providers : providers[n].enabled}
           /\ Cardinality(Listed(s)) =
                 Cardinality({n \in DOMAIN providers : providers[n].enabled})
           /\ \A e \in Listed(s) :
                 /\ e.login_url = <<"/api/oauth/", e.name, "/login">>
                 /\ e.type = TypeToString(providers[e.name].provider_type)

C19_Witness ==
    \E s \in Slots :
        /\ req[s].kind = "list"
        /\ req[s].resp.status = OK
        /\ \E e \in Listed(s) : e.name = "p1"
        /\ \E n \in DOMAIN providers : ~providers[n].enabled
        /\ Cardinality(Listed(s)) = 2

\* The request as it came in: its route, path, query and cookie.
Fresh(r) ==
    NewRequest(r.kind, r.name, r.code, r.state,
               IF r.jar.original = <<>> THEN <<>> ELSE r.jar.original[1].value)

\* The nonce a login drew, read off the state it signed.
NonceOf(r) == IF r.signed = <<>> THEN 1 ELSE r.signed[1].claims.uuid

\* A callback run alone as far as the request has come, with the request's
\* inputs, upstream answers and clock readings.
CallbackAlone(r) ==
    LET b == callback_begin(Fresh(r))
        e == IF b.pc = "exchange" /\ Len(r.replies) >= 1
             THEN callback_exchange(b, r.replies[1]) ELSE b
        u == IF e.pc = "user_info" /\ Len(r.replies) >= 2
             THEN callback_user_info(e, r.replies[2]) ELSE e
        g == IF u.pc = "sign" /\ Len(r.now) >= 1
             THEN callback_sign(u, r.now[1]) ELSE u
    IN IF g.pc = "cookie" /\ Len(r.now) >= 2
       THEN callback_cookie(g, r.now[2]) ELSE g

\* The request run alone with the same inputs, clock readings and upstream
\* answers.
Alone(r) ==
    CASE r.kind = "list"     -> list_providers(Fresh(r))
      [] r.kind = "login"    -> login(Fresh(r), NonceOf(r))
      [] r.kind = "logout"   -> logout(Fresh(r))
      [] r.kind = "user"     ->
            auth_middleware(Fresh(r), IF r.now = <<>> THEN 0 ELSE r.now[1])
      [] r.kind = "callback" -> CallbackAlone(r)
      [] OTHER               -> r

InFlight(s) == req[s].kind = "callback" /\ req[s].pc \notin {"done", "panicked"}

\* C20: requests share no state they can change: under every interleaving
\* of concurrent list, login, callback, logout and protected requests the
\* registry, the prefix and the signing key stay what the process started
\* with, and every request, finished or in flight, is where it would be
\* had it run alone with its inputs, clock readings and upstream answers.
C20_RequestsAreIndependent ==
    /\ providers = Registry
    /\ prefix_url = PrefixUrl
    /\ secret_key = "k1"
    /\ \A s \in Slots : req[s] = Alone(req[s])

\* Two callbacks in flight at once, one about to sign for the identity it
\* fetched while the other is still waiting for its exchange.
C20_Witness ==
    \E s, x \in Slots :
        /\ s # x
        /\ InFlight(s) /\ req[s].pc = "sign"
        /\ InFlight(x) /\ req[x].pc = "exchange"
        /\ req[s] = Alone(req[s])

\* Both upstream calls of a callback have been answered with success.
UpstreamSucceeded(s) ==
    /\ Len(req[s].replies) = 2
    /\ req[s].replies[1].ok
    /\ req[s].replies[2].fail_at = 0

\* C21: a state token is neither used up nor aged: a callback whose state
\* verifies under the process key passes the state check whatever the clock
\* and whatever other callback has presented the same state, and when its
\* exchange and identity fetch succeed it ends with a redirect and a
\* session cookie that verifies as a credential.
C21_StateTokenReplayable ==
    \A s \in Slots :
        (req[s].kind = "callback" /\ Verifies(req[s].state[1], "Uuid"))
        => /\ req[s].action_uuid = <<Decoded(req[s].state[1], "Uuid")>>
           /\ ~(req[s].pc = "done" /\ req[s].resp.status = UNAUTHORIZED)
           /\ (req[s].pc = "done" /\ UpstreamSucceeded(s)) =>
                 /\ req[s].resp.status = SEE_OTHER
                 /\ Len(req[s].resp.set_cookie) = 1
                 /\ Verifies(SessionCookie(s).value[1], "TokenInformation")

\* Two callbacks on record that presented the same state token, minted at
\* different clock readings, both with a session cookie.
C21_Witness ==
    \E s, x \in Slots :
        /\ s # x
        /\ req[s].kind = "callback" /\ req[x].kind = "callback"
        /\ req[s].state = req[x].state
        /\ req[s].pc = "done" /\ req[x].pc = "done"
        /\ req[s].resp.status = SEE_OTHER /\ req[x].resp.status = SEE_OTHER
        /\ req[s].resp.set_cookie # <<>> /\ req[x].resp.set_cookie # <<>>
        /\ req[s].now[1] < req[x].now[1]

\* The calls a callback has made to the provider's user endpoints.
UserCalls(s) ==
    SelectSeq(req[s].upstream, LAMBDA c : c.endpoint # "/oauth/token")

\* C22: callback verifies the state, resolves the provider, exchanges the
\* code, fetches the identity and mints the credential in this order and
\* stops at the first failure: a provider client exists only after the
\* state verified, the exchange is the first upstream call, the identity
\* is fetched only after the exchange succeeded and with the access token
\* it returned, and a credential is signed and a cookie set only after
\* both upstream calls succeeded.
C22_CallbackStepsInOrder ==
    \A s \in Slots :
        req[s].kind = "callback"
        => /\ req[s].provider # <<>> =>
                 (Verifies(req[s].state[1], "Uuid") /\ req[s].name \in DOMAIN providers)
           /\ req[s].upstream # <<>> =>
                 /\ req[s].provider # <<>>
                 /\ req[s].upstream[1].endpoint = "/oauth/token"
                 /\ req[s].upstream[1].code = req[s].code
           /\ UserCalls(s) # <<>> =>
                 /\ Len(req[s].replies) = 2
                 /\ req[s].replies[1].ok
                 /\ UserCalls(s) = SubSeq(req[s].upstream, 2, Len(req[s].upstream))
                 /\ \A i \in DOMAIN UserCalls(s) :
                       UserCalls(s)[i].bearer \in {"", req[s].replies[1].access_token}
                 /\ UserCalls(s)[1].endpoint = "/api/user"
                 /\ UserCalls(s)[1].bearer = req[s].replies[1].access_token
           /\ (req[s].signed # <<>> \/ req[s].resp.set_cookie # <<>>) =>
                 /\ UpstreamSucceeded(s)
                 /\ Len(req[s].upstream) = 4
           /\ (req[s].pc = "done" /\ ~UpstreamSucceeded(s)) =>
                 /\ req[s].resp.status # SEE_OTHER
                 /\ req[s].resp.set_cookie = <<>>

C22_Witness ==
    \E s \in Slots :
        /\ req[s].kind = "callback"
        /\ req[s].pc = "done"
        /\ req[s].resp.set_cookie # <<>>
        /\ req[s].replies[1].access_token = "at2"
        /\ UserCalls(s)[2].endpoint = "/api/players"
        /\ UserCalls(s)[2].bearer = "at2"

LoginLeavesNoTrace(s) ==
    /\ req[s].resp.set_cookie = <<>>
    /\ req[s].jar.delta = <<>>
    /\ ClientAfter(s) = ClientBefore(s)
    /\ req[s].upstream = <<>>
    /\ req[s].replies = <<>>
    /\ providers = Registry
    /\ prefix_url = PrefixUrl
    /\ secret_key = "k1"

CallbackUrl(name) ==
    PrefixUrl \o <<"/", "api", "/", "oauth", "/", name, "/", "callback">>

\* C25: the redirect URI login puts in the authorize URL and the redirect
\* URI callback sends to the token endpoint are, for the provider name of
\* the request's path, the same value {prefix}/api/oauth/{name}/callback,
\* whatever the code, state, cookie and clock.
C25_SameRedirectUri ==
    \A s \in Slots :
        /\ (req[s].kind = "login" /\ req[s].resp.location # <<>>) =>
              /\ UrlDecode(req[s].resp.location[1].redirect_uri) = CallbackUrl(req[s].name)
              /\ req[s].redirect_uri = CallbackUrl(req[s].name)
        /\ (req[s].kind = "callback" /\ req[s].upstream # <<>>) =>
              /\ req[s].upstream[1].redirect_uri = CallbackUrl(req[s].name)
              /\ req[s].redirect_uri = CallbackUrl(req[s].name)
        /\ (req[s].kind \in {"login", "callback"} /\ req[s].redirect_uri # <<>>) =>
              req[s].redirect_uri = CallbackUrl(req[s].name)

C25_Witness ==
    \E s \in Slots :
        /\ req[s].kind = "callback"
        /\ req[s].name = "p1"
        /\ req[s].upstream # <<>>
        /\ req[s].upstream[1].redirect_uri =
              <<"http", ":", "/", "/", "gw", "/", "api", "/", "oauth", "/", "p1",
                "/", "callback">>
        /\ req[s].upstream[1].redirect_uri =
              UrlDecode(login(NewRequest("login", "p1", "", <<>>, <<>>), 1)
                            .resp.location[1].redirect_uri)

\* C26: the state token binds a callback to the login that issued it: when
\* the state a login for one provider has just issued is presented to a
\* callback for another configured provider that has an implementation,
\* the callback fails the state check with 401 and goes no further.
C26_StateBoundToProvider ==
    [][\A s \in Slots :
          (/\ req[s].kind = "login"
           /\ req[s].signed # <<>>
           /\ req'[s].kind = "callback"
           /\ req'[s].state = req[s].signed
           /\ req'[s].name # req[s].name
           /\ req'[s].name \in DOMAIN providers
           /\ Implemented(req'[s].name))
          => /\ req'[s].pc = "done"
             /\ req'[s].resp.status = UNAUTHORIZED
             /\ req'[s].action_uuid = <<>>
             /\ req'[s].provider = <<>>]_vars

\* A state token of the process: a UUID string signed under the process key.
StateToken(t) ==
    /\ t.wf
    /\ t.claims.j = "string"
    /\ t.claims.uuid > 0
    /\ t = sign_with_key(Uuid(t.claims.uuid), secret_key)

\* A session credential of the process: a TokenInformation object signed
\* under the process key.
Credential(t) ==
    /\ t.wf
    /\ t.claims.j = "object"
    /\ Verifies(t, "TokenInformation")

\* C27: neither token stands in for the other. A request to /api/user whose
\* access_token cookie is a validly signed state token is answered 401 by
\* auth_middleware, with no identity attached and get_user not run; a
\* callback whose state parameter is a validly signed session credential
\* is answered 401 at the state check and goes no further.
C27_TokensNotInterchangeable ==
    /\ \A s \in Slots :
          (/\ Served(s, "user")
           /\ CookieOf(s) # <<>>
           /\ StateToken(CookieToken(s)))
          => /\ req[s].pc = "done"
             /\ req[s].resp.status = UNAUTHORIZED
             /\ req[s].extensions = <<>>
             /\ ~req[s].handler_ran
    /\ \A s \in Slots :
          (/\ req[s].kind = "callback"
           /\ req[s].state # <<>>
           /\ Credential(req[s].state[1]))
          => /\ req[s].pc = "done"
             /\ req[s].resp.status = UNAUTHORIZED
             /\ req[s].action_uuid = <<>>
             /\ req[s].upstream = <<>>
             /\ req[s].resp.set_cookie = <<>>

\* A state token a login has just handed out comes back as the cookie of
\* a request to /api/user.
C27_Witness ==
    \E s \in Slots :
        /\ Served(s, "user")
        /\ CookieOf(s) # <<>>
        /\ StateToken(CookieToken(s))
        /\ CookieToken(s).claims.uuid = MaxNonce
        /\ req[s].resp.status = UNAUTHORIZED

\* The callback on record in slot x ended by setting the access_token
\* cookie to token t.
MintedBy(x, t) ==
    /\ req[x].kind = "callback"
    /\ req[x].pc = "done"
    /\ req[x].resp.status = SEE_OTHER
    /\ Len(req[x].resp.set_cookie) = 1
    /\ req[x].resp.set_cookie[1].name = "access_token"
    /\ req[x].resp.set_cookie[1].value = <<t>>

\* The identity the provider's user endpoints returned to the callback on
\* record in slot x.
Returned(x) == req[x].replies[Len(req[x].replies)].account

\* C28: provenance of authentication, for clients that cannot sign under
\* the process key: whenever auth_middleware accepts a request, the
\* credential in its cookie is the one a successful callback on record
\* has set, minted no later than the request; the identity attached to the
\* request is the account the provider returned to that callback, under
\* that callback's provider name. So no request is authenticated unless a
\* callback has succeeded before it.
C28_Provenance ==
    [][\A s \in Slots :
          (/\ req'[s] # req[s]
           /\ req'[s].kind = "user"
           /\ req'[s].extensions # <<>>)
          => \E x \in Slots :
                /\ req'[s].jar.original # <<>>
                /\ MintedBy(x, req'[s].jar.original[1].value[1])
                /\ UpstreamSucceeded(x)
                /\ req[x].now[1] <= req'[s].now[1]
                /\ LET u == req'[s].extensions[1]
                   IN /\ u.uid = ToString(Returned(x).uid)
                      /\ u.nickname = Returned(x).nickname
                      /\ u.email = Returned(x).email
                      /\ u.profiles = Returned(x).profiles
                      /\ u.provider = req[x].name
                      /\ u.provider_type = providers[req[x].name].provider_type]_vars

\* A request authenticated as bob, beside the callback that minted its
\* credential.
C28_Witness ==
    \E s, x \in Slots :
        /\ s # x
        /\ Served(s, "user")
        /\ req[s].handler_ran
        /\ req[s].resp.status = OK
        /\ MintedBy(x, CookieToken(s))
        /\ req[s].extensions[1].nickname = "bob"

====
